---- MODULE Spec2Model ----
(***************************************************************************)
(* Model of abm_toolbox/logit_toolbox.py: the long-form data builder, the  *)
(* upsampler, the specification builder, the estimator with its fallback,  *)
(* the predictor and the cross-validator.                                  *)
(*                                                                         *)
(* A data frame is a record [columns, rows]: the set of its column names   *)
(* and the sequence of its rows, each row a function from column names to  *)
(* values.  A call's outcome is a record [kind, ...]: kind "return" with   *)
(* the returned value, or kind "raise" with the exception's name.          *)
(* Variable and coefficient names are sequences of tokens, so that         *)
(* 'income for walk' is <<"income", " for ", "walk">>: concatenation,      *)
(* endswith and split(' for ') act on the tokens.                          *)
(***************************************************************************)
EXTENDS Integers, Sequences, FiniteSets, TLC

\* pc: the position of the call under study; args: its arguments; ret: its
\* outcome; caller_df: the caller's frame object passed as the data argument;
\* fit_calls: the fit_mle calls logit_est_disp has made; caseIDs, cv_data,
\* holdout_idx, cv_metrics_detail, accuracy_list, f1_macro_list: the locals of
\* logit_cv.
VARIABLES pc, args, ret, caller_df, fit_calls, caseIDs, cv_data, holdout_idx,
          cv_metrics_detail, accuracy_list, f1_macro_list

vars == <<pc, args, ret, caller_df, fit_calls, caseIDs, cv_data, holdout_idx,
          cv_metrics_detail, accuracy_list, f1_macro_list>>

\* The loop state of logit_cv, and its value while logit_cv is not running.
cv_vars == <<caseIDs, cv_data, holdout_idx, cv_metrics_detail, accuracy_list, f1_macro_list>>
CvIdle ==
    /\ caseIDs = <<>> /\ cv_data = <<>> /\ holdout_idx = 0
    /\ cv_metrics_detail = <<>> /\ accuracy_list = <<>> /\ f1_macro_list = <<>>

\* Bounds of the model.
MaxRows == 2
MaxCases == 2
MaxNew == 2
MaxAlt == 3
MaxPredCases == 2
MaxCoef == 3
MaxCvCases == 4
MaxFold == 3

\* ---------------------------------------------------------------- helpers

Pending == [kind |-> "pending"]
Return(v) == [kind |-> "return", value |-> v]
Raise(e) == [kind |-> "raise", exc |-> e]

Range(s) == {s[i] : i \in DOMAIN s}

RECURSIVE SumSeq(_)
SumSeq(s) == IF s = <<>> THEN 0 ELSE s[1] + SumSeq(Tail(s))

RECURSIVE Flatten(_)
Flatten(ss) == IF ss = <<>> THEN <<>> ELSE ss[1] \o Flatten(Tail(ss))

\* list.index(x): the first position (0-based) of x in s; x is in s.
ListIndex(s, x) == (CHOOSE i \in DOMAIN s : s[i] = x /\ \A j \in 1..(i - 1) : s[j] # x) - 1

\* row.get(key, default) of a pandas row
RowGet(row, key, default) == IF key \in DOMAIN row THEN row[key] ELSE default

\* ------------------------------------------------------- long_form_data

\* The alt_attrs lists of one input row: row.get(row_attr, 0) per listed name.
AltAttrValues(row, alt_attrs, alt_attr) ==
    [k \in 1..Len(alt_attrs[alt_attr]) |-> RowGet(row, alt_attrs[alt_attr][k], 0)]

\* The slip of using the 0-based list.index as a 1-based position.
ModeChoiceShifted(row, modes, y_true) ==
    [k \in 1..Len(modes) |->
        IF y_true /\ k = ListIndex(modes, row["mode"]) THEN 1 ELSE 0]

\* choice_tmp.copy() with the chosen mode's position set to 1 when y_true.
ModeChoice(row, modes, y_true) ==
    [k \in 1..Len(modes) |->
        IF y_true /\ k = ListIndex(modes, row["mode"]) + 1 THEN 1 ELSE 0]

\* The nalt long-form rows one input row contributes.
LongRows(rid, row, alt_attrs, generic_attrs, modes, y_true) ==
    [k \in 1..Len(modes) |->
        [c \in {"group", "alt", "choice"} \cup DOMAIN alt_attrs \cup Range(generic_attrs) |->
            CASE c = "group" -> rid
              [] c = "alt" -> modes[k]
              [] c = "choice" -> ModeChoice(row, modes, y_true)[k]
              [] c \in DOMAIN alt_attrs -> AltAttrValues(row, alt_attrs, c)[k]
              [] OTHER -> row[c]]]

\* long_form_data: one input row becomes nalt output rows.  modes.index raises
\* ValueError for a mode that is not listed; DataFrame.from_dict raises
\* ValueError when the column lists differ in length, which happens when an
\* alt_attrs list does not have nalt names and there is at least one row.
long_form_data(mode_table, alt_attrs, generic_attrs, modes, y_true) ==
    LET n == Len(mode_table.rows)
        keys == {"group", "alt", "choice"} \cup DOMAIN alt_attrs \cup Range(generic_attrs)
    IN  IF y_true /\ \E i \in 1..n : mode_table.rows[i]["mode"] \notin Range(modes)
        THEN Raise("ValueError")
        ELSE IF n > 0 /\ \E a \in DOMAIN alt_attrs : Len(alt_attrs[a]) # Len(modes)
        THEN Raise("ValueError")
        ELSE Return([columns |-> keys,
                     rows |-> Flatten([i \in 1..n |->
                                 LongRows(mode_table.index[i], mode_table.rows[i],
                                          alt_attrs, generic_attrs, modes, y_true)])])

\* Inputs of long_form_data: tables of up to MaxRows rows, with modes that are
\* listed, not listed ("PT") or listed twice, and alt_attrs lists of nalt names
\* or not.
ModeLists == {<<"drive", "walk">>, <<"walk", "drive">>, <<"drive", "cycle", "walk">>,
              <<"walk", "walk">>}
WideRows == {[mode |-> "drive", income |-> 1, t_drive |-> 5, t_walk |-> 9],
             [mode |-> "walk", income |-> 2, t_drive |-> 7],
             [mode |-> "PT", income |-> 1, t_walk |-> 4]}
IndexLists == {<<>>, <<0>>, <<4>>, <<0, 1>>, <<7, 3>>, <<2, 2>>, <<1, 0, 5>>, <<3, 1, 0, 2>>}
AltAttrDicts == {<<>>, [time |-> <<"t_drive", "t_walk">>],
                 [time |-> <<"t_drive", "t_cycle", "t_walk">>]}
GenericAttrLists == {<<>>, <<"income">>}

LfdInit ==
    /\ pc = "call"
    /\ \E idx \in {s \in IndexLists : Len(s) <= MaxRows}, modes \in ModeLists,
          alt_attrs \in AltAttrDicts, generic_attrs \in GenericAttrLists, y_true \in BOOLEAN :
          \E rows \in [1..Len(idx) -> WideRows] :
             args = [mode_table |-> [index |-> idx, rows |-> rows], alt_attrs |-> alt_attrs,
                     generic_attrs |-> generic_attrs, modes |-> modes, y_true |-> y_true]
    /\ ret = Pending /\ caller_df = <<>>
    /\ fit_calls = <<>> /\ CvIdle

LfdCall ==
    /\ pc = "call"
    /\ ret' = long_form_data(args.mode_table, args.alt_attrs, args.generic_attrs,
                             args.modes, args.y_true)
    /\ pc' = "done"
    /\ UNCHANGED <<args, caller_df, fit_calls, cv_vars>>

LfdNext == LfdCall

SpecLfd == LfdInit /\ [][LfdNext]_vars

\* A returned long frame of a call with y_true = True.
LfdReturned == pc = "done" /\ ret.kind = "return" /\ args.y_true

\* The output rows of input row i, as positions of the output frame.
LfdBlock(i) == {(i - 1) * Len(args.modes) + k : k \in 1..Len(args.modes)}

\* C4: with y_true = True, long_form_data turns every input row into N = len(modes)
\* consecutive output rows whose group is the row's index label, whose alt values
\* are the modes in the given order and whose choice values are one-hot, the 1
\* standing on a row whose alt is the input row's mode; the output has N times
\* the rows of the input and every case-specific attribute is repeated on all N
\* rows of its case.
C4_LongFormOneHot ==
    LfdReturned =>
        LET N == Len(args.modes)
            tab == args.mode_table
            out == ret.value.rows
        IN  /\ Len(out) = N * Len(tab.rows)
            /\ \A i \in DOMAIN tab.rows :
                  /\ \A k \in 1..N :
                        LET r == out[(i - 1) * N + k]
                        IN  /\ r["group"] = tab.index[i]
                            /\ r["alt"] = args.modes[k]
                            /\ r["choice"] \in {0, 1}
                            /\ r["choice"] = 1 => r["alt"] = tab.rows[i]["mode"]
                            /\ \A g \in Range(args.generic_attrs) : r[g] = tab.rows[i][g]
                  /\ Cardinality({j \in LfdBlock(i) : out[j]["choice"] = 1}) = 1
                  /\ (Cardinality(Range(args.modes)) = N =>
                        \A j \in LfdBlock(i) :
                           out[j]["choice"] = 1 <=> out[j]["alt"] = tab.rows[i]["mode"])

\* C4 witness: a returned frame of two rows with different modes, three
\* alternatives and a case-specific attribute.
C4_Witness ==
    /\ LfdReturned
    /\ Len(args.mode_table.rows) = 2
    /\ args.mode_table.rows[1]["mode"] # args.mode_table.rows[2]["mode"]
    /\ Len(args.modes) = 3
    /\ args.generic_attrs # <<>>
    /\ DOMAIN args.alt_attrs # {}

\* ------------------------------------------------- long_form_data_upsample

RECURSIVE SortedSeq(_)
SortedSeq(S) ==
    IF S = {} THEN <<>>
    ELSE LET m == CHOOSE x \in S : \A y \in S : x <= y IN <<m>> \o SortedSeq(S \ {m})

SetMax(S) == CHOOSE x \in S : \A y \in S : y <= x

\* set(df['group'])
CaseIDs(df) == {df.rows[i]["group"] : i \in DOMAIN df.rows}

\* [data for caseID, data in df.groupby('group')]: one sub-frame per group ID,
\* in increasing ID order, each keeping its rows in frame order.
GroupBy(df) ==
    LET ids == SortedSeq(CaseIDs(df))
    IN  [g \in 1..Len(ids) |->
            LET InGroup(r) == r["group"] = ids[g] IN SelectSeq(df.rows, InGroup)]

\* [data for data in casedata_list if list(data['choice'])[alt_idx] == 1]
ThisAltCasedataList(casedata_list, alt_idx) ==
    LET Chose(data) == data[alt_idx + 1]["choice"] = 1 IN SelectSeq(casedata_list, Chose)

\* The slip of reading '*N' as N new cases per existing case.
NumNewTimesN(entry, num_this_alt_casedata) ==
    IF entry[2] = "+" THEN entry[3] ELSE num_this_alt_casedata * entry[3]

\* num_new of one upsample_new entry <<alt_idx, op, N>>, standing for
\* alt_idx: '+N' or alt_idx: '*N'; int(num * (float(N) - 1)) is exact for integer N.
NumNew(entry, num_this_alt_casedata) ==
    IF entry[2] = "+" THEN entry[3] ELSE num_this_alt_casedata * (entry[3] - 1)

\* np.random.choice(range(n), size=num_new) raises ValueError for a negative size
\* and for an empty population when samples are taken; for an empty population and
\* size 0 it raises in older numpy releases and returns no sample in newer ones.
ChoiceRaises(n, num_new, empty_choice_raises) ==
    \/ num_new < 0
    \/ n = 0 /\ num_new > 0
    \/ n = 0 /\ num_new = 0 /\ empty_choice_raises

\* The samples np.random.choice can return: every sequence of num_new positions.
ChoiceResults(n, num_new) ==
    IF num_new <= 0 \/ n = 0 THEN {<<>>} ELSE [1..num_new -> 1..n]

\* The slip of leaving the position of the added case out of its ID.
NewCaseIDSame(maxID, idx) == maxID + 1

\* new_casedata['group'] = maxID + idx + 1, idx counting the added cases from 0.
NewCaseID(maxID, idx) == maxID + idx + 1

SetGroup(casedata, id) == [k \in DOMAIN casedata |-> [casedata[k] EXCEPT !["group"] = id]]

\* this_alt_casedata_list[i].copy(): the sample is its own frame.
CopyCase(casedata) == casedata

\* The caller's frame after the call: the function works on long_data_df_in.copy(),
\* groups a further copy of it and relabels copies of the sampled cases.
UpsampleCallerFrame(long_data_df_in) == long_data_df_in

\* long_form_data_upsample; picks[e] is what np.random.choice returned for the
\* e-th entry of upsample_new.
long_form_data_upsample(long_data_df_in, upsample_new, picks, empty_choice_raises) ==
    LET casedata_list == GroupBy(long_data_df_in)
        case_ids == CaseIDs(long_data_df_in)
        this_alt(e) == ThisAltCasedataList(casedata_list, upsample_new[e][1])
        num_new(e) == NumNew(upsample_new[e], Len(this_alt(e)))
        new_casedata_list ==
            Flatten([e \in DOMAIN upsample_new |->
                        [j \in DOMAIN picks[e] |-> CopyCase(this_alt(e)[picks[e][j]])]])
        maxID == SetMax(case_ids)
    IN  IF \E e \in DOMAIN upsample_new :
              ChoiceRaises(Len(this_alt(e)), num_new(e), empty_choice_raises)
        THEN Raise("ValueError")
        ELSE IF case_ids = {} THEN Raise("ValueError")
        ELSE Return([columns |-> long_data_df_in.columns,
                     rows |-> long_data_df_in.rows \o
                              Flatten([idx \in DOMAIN new_casedata_list |->
                                  SetGroup(new_casedata_list[idx], NewCaseID(maxID, idx - 1))])])

\* Every way of taking one element from each set of a sequence of sets.
RECURSIVE SeqProduct(_)
SeqProduct(sets) ==
    IF sets = <<>> THEN {<<>>}
    ELSE {<<h>> \o t : h \in Head(sets), t \in SeqProduct(Tail(sets))}

\* The samples the random generator can return for a whole call: one sample per
\* entry of upsample_new.
UpsamplePicks(df, upsample_new) ==
    LET casedata_list == GroupBy(df)
    IN  SeqProduct([e \in DOMAIN upsample_new |->
                      LET n == Len(ThisAltCasedataList(casedata_list, upsample_new[e][1]))
                      IN  ChoiceResults(n, NumNew(upsample_new[e], n))])

\* Inputs of long_form_data_upsample: frames long_form_data builds from tables
\* with distinct row labels, and upsample_new dicts over the two alternatives.
UpModes == <<"drive", "walk">>
UpIndexLists == {<<>>, <<0>>, <<0, 1>>, <<7, 3>>, <<1, 0, 5>>, <<0, 1, 2>>, <<3, 1, 0, 2>>}
UpWideRows == {[mode |-> "drive", income |-> 1], [mode |-> "walk", income |-> 2]}
UpEntries(alt_idx) ==
    {<<>>} \cup {<<<<alt_idx, op, n>>>> : op \in {"+", "*"}, n \in 0..MaxNew}
UpsampleNewDicts ==
    {a \o b : a \in UpEntries(0), b \in UpEntries(1)}
        \cup {b \o a : a \in UpEntries(0) \ {<<>>}, b \in {<<<<1, "+", 1>>>>}}

UpInit ==
    /\ pc = "call"
    /\ \E idx \in {s \in UpIndexLists : Len(s) <= MaxCases}, y_true \in BOOLEAN,
          upsample_new \in UpsampleNewDicts, empty_choice_raises \in BOOLEAN :
          \E rows \in [1..Len(idx) -> UpWideRows] :
             args = [long_data_df_in |->
                        long_form_data([index |-> idx, rows |-> rows], <<>>, <<"income">>,
                                       UpModes, y_true).value,
                     upsample_new |-> upsample_new,
                     empty_choice_raises |-> empty_choice_raises]
    /\ ret = Pending /\ caller_df = args.long_data_df_in
    /\ fit_calls = <<>> /\ CvIdle

UpCall ==
    /\ pc = "call"
    /\ \E picks \in UpsamplePicks(args.long_data_df_in, args.upsample_new) :
          ret' = long_form_data_upsample(args.long_data_df_in, args.upsample_new, picks,
                                         args.empty_choice_raises)
    /\ caller_df' = UpsampleCallerFrame(caller_df)
    /\ pc' = "done"
    /\ UNCHANGED <<args, fit_calls, cv_vars>>

UpNext == UpCall

SpecUp == UpInit /\ [][UpNext]_vars

UpReturned == pc = "done" /\ ret.kind = "return"

\* The rows of one case of a frame, and the case with its group label left out.
CaseRows(df, g) == LET InCase(r) == r["group"] = g IN SelectSeq(df.rows, InCase)
Unlabelled(rows) == [k \in DOMAIN rows |-> [c \in DOMAIN rows[k] \ {"group"} |-> rows[k][c]]]

\* The cases of a frame that chose alternative alt_idx: those with choice 1 on
\* the row of that alternative.
CasesChoosing(df, alt_idx) ==
    {g \in CaseIDs(df) :
        \E i \in DOMAIN df.rows :
           /\ df.rows[i]["group"] = g
           /\ df.rows[i]["alt"] = UpModes[alt_idx + 1]
           /\ df.rows[i]["choice"] = 1}

\* C5: in the returned frame an entry a: '+N' leaves exactly N more cases choosing
\* a than the input has, an entry a: '*N' with N >= 1 leaves N times as many;
\* every added case is a copy of an input case that chose an alternative named
\* in upsample_new, and every input case is still there unchanged.
C5_UpsampleCounts ==
    UpReturned =>
        LET df_in == args.long_data_df_in
            df_out == ret.value
            spec == args.upsample_new
        IN  /\ \A e \in DOMAIN spec :
                  LET before == Cardinality(CasesChoosing(df_in, spec[e][1]))
                      after == Cardinality(CasesChoosing(df_out, spec[e][1]))
                  IN  /\ spec[e][2] = "+" => after = before + spec[e][3]
                      /\ spec[e][2] = "*" /\ spec[e][3] >= 1 => after = before * spec[e][3]
            /\ \A g \in CaseIDs(df_out) \ CaseIDs(df_in) :
                  \E e \in DOMAIN spec : \E h \in CasesChoosing(df_in, spec[e][1]) :
                     Unlabelled(CaseRows(df_out, g)) = Unlabelled(CaseRows(df_in, h))
            /\ \A g \in CaseIDs(df_in) : CaseRows(df_out, g) = CaseRows(df_in, g)

\* C5 witness: a call that doubled the cases of one alternative and added cases
\* to the other.
C5_Witness ==
    /\ UpReturned
    /\ \E e, f \in DOMAIN args.upsample_new :
          /\ args.upsample_new[e][2] = "*" /\ args.upsample_new[e][3] = 2
          /\ Cardinality(CasesChoosing(args.long_data_df_in, args.upsample_new[e][1])) >= 1
          /\ args.upsample_new[f][2] = "+" /\ args.upsample_new[f][3] >= 1

\* C10: in the returned frame the added cases carry pairwise distinct group IDs,
\* all greater than every ID of the input, every group value stands for one case
\* of exactly nalt rows, and the caller's input frame is as it was.
C10_FreshGroupIDs ==
    UpReturned =>
        LET df_in == args.long_data_df_in
            df_out == ret.value
            nalt == Len(UpModes)
            n_in == Len(df_in.rows)
            added == (Len(df_out.rows) - n_in) \div nalt
            AddedID(j) == df_out.rows[n_in + (j - 1) * nalt + 1]["group"]
        IN  /\ Len(df_out.rows) = n_in + added * nalt
            /\ \A j \in 1..added :
                  /\ \A k \in 1..nalt : df_out.rows[n_in + (j - 1) * nalt + k]["group"] = AddedID(j)
                  /\ \A g \in CaseIDs(df_in) : AddedID(j) > g
                  /\ \A l \in 1..added : l # j => AddedID(l) # AddedID(j)
            /\ \A g \in CaseIDs(df_out) :
                  /\ Len(CaseRows(df_out, g)) = nalt
                  /\ [k \in 1..nalt |-> CaseRows(df_out, g)[k]["alt"]] = UpModes
            /\ caller_df = df_in

\* C10 witness: a call that added at least two cases, two of them copies of the
\* same input case.
C10_Witness ==
    /\ UpReturned
    /\ \E g, h \in CaseIDs(ret.value) \ CaseIDs(args.long_data_df_in) :
          /\ g # h
          /\ Unlabelled(CaseRows(ret.value, g)) = Unlabelled(CaseRows(ret.value, h))

\* --------------------------------------------------------------- logit_spec

\* The default alternatives, {0: 'drive', 1: 'cycle', 2: 'walk', 3: 'PT'}.
DefaultAltNames == <<"drive", "cycle", "walk", "PT">>

\* alts is [kind, items]: a list (items a sequence) or a dict (items a function
\* from its keys).  len(alts):
NAlt(alts) == Cardinality(DOMAIN alts.items)

\* if isinstance(alts, list): alts = {i: alts[i] for i in range(nalt)}
AltsDict(alts) ==
    IF alts.kind = "list" THEN [i \in 0..(NAlt(alts) - 1) |-> alts.items[i + 1]]
    ELSE alts.items

\* list(alts.values()) of the dict, whose keys were inserted in increasing order
AltsValues(alts) ==
    LET d == AltsDict(alts)
        ks == SortedSeq(DOMAIN d)
    IN  [k \in 1..Len(ks) |-> d[ks[k]]]

\* An OrderedDict is a sequence of <<key, value>> pairs; od[key] = value replaces
\* the value of a key that is there and appends a new key.
OdSet(od, key, value) ==
    IF \E i \in DOMAIN od : od[i][1] = key
    THEN [i \in DOMAIN od |-> IF od[i][1] = key THEN <<key, value>> ELSE od[i]]
    ELSE Append(od, <<key, value>>)

OdKeys(od) == {od[i][1] : i \in DOMAIN od}
OdGet(od, key) == od[CHOOSE i \in DOMAIN od : od[i][1] = key][2]

RECURSIVE OdSetAll(_, _, _)
\* for var in keys: od[var] = values[var]
OdSetAll(od, keys, values) ==
    IF keys = <<>> THEN od
    ELSE OdSetAll(OdSet(od, keys[1], values[keys[1]]), Tail(keys), values)

\* The slip of keeping the reference alternative among the interacted ones.
NonRefIndicesAll(nalt, ref_alt_idx) == [k \in 1..nalt |-> k - 1]

\* [i for i in range(nalt) if i != ref_alt_idx]
NonRefIndices(nalt, ref_alt_idx) ==
    LET NotRef(i) == i # ref_alt_idx IN SelectSeq([k \in 1..nalt |-> k - 1], NotRef)

\* logit_spec: the specification and names dicts handed to pylogit, and numCoef.
\* alts[i] raises KeyError for an index that is no key of the dict.  The pylogit
\* model object is represented by the specification and names it is built from.
logit_spec(alt_attr_vars, generic_attrs, constant, alts, ref_alt_idx) ==
    LET nalt == NAlt(alts)
        d == AltsDict(alts)
        idx == NonRefIndices(nalt, ref_alt_idx)
        AltSpec == [var \in Range(alt_attr_vars) |-> <<AltsValues(alts)>>]
        AltName == [var \in Range(alt_attr_vars) |-> <<<<var>>>>]
        CaseSpec == [var \in Range(generic_attrs) \cup {"intercept"} |->
                        [k \in DOMAIN idx |-> d[idx[k]]]]
        CaseName == [var \in Range(generic_attrs) |->
                        [k \in DOMAIN idx |-> <<var, " for ", d[idx[k]]>>]]
        AscName == [var \in {"intercept"} |->
                        [k \in DOMAIN idx |-> <<"ASC", " for ", d[idx[k]]>>]]
        spec1 == OdSetAll(<<>>, alt_attr_vars, AltSpec)
        names1 == OdSetAll(<<>>, alt_attr_vars, AltName)
        spec2 == OdSetAll(spec1, generic_attrs, CaseSpec)
        names2 == OdSetAll(names1, generic_attrs, CaseName)
        specifications == IF constant THEN OdSetAll(spec2, <<"intercept">>, CaseSpec) ELSE spec2
        names == IF constant THEN OdSetAll(names2, <<"intercept">>, AscName) ELSE names2
    IN  IF (generic_attrs # <<>> \/ constant) /\ \E k \in DOMAIN idx : idx[k] \notin DOMAIN d
        THEN Raise("KeyError")
        ELSE Return([model |-> [specification |-> specifications, names |-> names],
                     numCoef |-> SumSeq([i \in DOMAIN specifications |->
                                            Len(specifications[i][2])])])

\* Inputs of logit_spec, as its docstring describes them: lists and dicts of the
\* first nalt default alternatives, indexed from 0; lists of distinct variable
\* names; ref_alt_idx the index of one of the alternatives.
SpecAlts ==
    UNION {{[kind |-> "list", items |-> SubSeq(DefaultAltNames, 1, n)],
            [kind |-> "dict", items |-> [i \in 0..(n - 1) |-> DefaultAltNames[i + 1]]]} :
           n \in 1..MaxAlt}
SpecAltAttrVars == {<<>>, <<"time">>, <<"time", "cost">>}
SpecGenericAttrs == {<<>>, <<"income">>, <<"income", "age">>}

LsInit ==
    /\ pc = "call"
    /\ \E alt_attr_vars \in SpecAltAttrVars, generic_attrs \in SpecGenericAttrs,
          constant \in BOOLEAN, alts \in SpecAlts :
          \E ref_alt_idx \in 0..(NAlt(alts) - 1) :
             args = [alt_attr_vars |-> alt_attr_vars, generic_attrs |-> generic_attrs,
                     constant |-> constant, alts |-> alts, ref_alt_idx |-> ref_alt_idx]
    /\ ret = Pending /\ caller_df = <<>>
    /\ fit_calls = <<>> /\ CvIdle

LsCall ==
    /\ pc = "call"
    /\ ret' = logit_spec(args.alt_attr_vars, args.generic_attrs, args.constant,
                         args.alts, args.ref_alt_idx)
    /\ pc' = "done"
    /\ UNCHANGED <<args, caller_df, fit_calls, cv_vars>>

LsNext == LsCall

SpecLs == LsInit /\ [][LsNext]_vars

\* C7: logit_spec returns a specification in which every alternative-specific
\* variable has a single coefficient over all alternatives, every case-specific
\* variable and, with constant=True, the intercept have one coefficient for each
\* alternative other than the one at ref_alt_idx, and numCoef is
\* len(alt_attr_vars) + (nalt - 1) * (len(generic_attrs) + (1 if constant else 0)),
\* for alts a list or a dict.
C7_SpecCoefficients ==
    pc = "done" =>
        LET a == args
            alt_names == {a.alts.items[k] : k \in DOMAIN a.alts.items}
            ref_name == IF a.alts.kind = "list" THEN a.alts.items[a.ref_alt_idx + 1]
                        ELSE a.alts.items[a.ref_alt_idx]
            spec == ret.value.model.specification
            names == ret.value.model.names
            case_vars == Range(a.generic_attrs) \cup (IF a.constant THEN {"intercept"} ELSE {})
            Label(v) == IF v = "intercept" THEN "ASC" ELSE v
        IN  /\ ret.kind = "return"
            /\ OdKeys(spec) = Range(a.alt_attr_vars) \cup case_vars
            /\ OdKeys(names) = OdKeys(spec)
            /\ \A v \in Range(a.alt_attr_vars) :
                  /\ Len(OdGet(spec, v)) = 1
                  /\ Range(OdGet(spec, v)[1]) = alt_names
                  /\ OdGet(names, v) = <<<<v>>>>
            /\ \A v \in case_vars :
                  /\ Range(OdGet(spec, v)) = alt_names \ {ref_name}
                  /\ Len(OdGet(spec, v)) = NAlt(a.alts) - 1
                  /\ \A k \in DOMAIN OdGet(spec, v) :
                        OdGet(names, v)[k] = <<Label(v), " for ", OdGet(spec, v)[k]>>
            /\ ret.value.numCoef =
                  Len(a.alt_attr_vars)
                    + (NAlt(a.alts) - 1) * (Len(a.generic_attrs) + (IF a.constant THEN 1 ELSE 0))

\* C7 witness: a returned specification with two alternative-specific and two
\* case-specific variables, a constant, three alternatives given as a dict and
\* the middle one as reference.
C7_Witness ==
    /\ pc = "done" /\ ret.kind = "return"
    /\ args.alts.kind = "dict" /\ NAlt(args.alts) = 3 /\ args.ref_alt_idx = 1
    /\ args.constant /\ Len(args.alt_attr_vars) = 2 /\ Len(args.generic_attrs) = 2

\* ------------------------------------------------------------ asclogit_pred

\* The value a bare return hands back.
None == <<"None">>

\* v[v > 700] = 700 and v[v < -700] = -700
ClipBound == 700

\* varname.endswith(case_varname_endswith_flag): the name ends with ' for ' and
\* the name of one of the alternatives.
EndsWithAltFlag(varname, alts) ==
    /\ Len(varname) >= 2
    /\ varname[Len(varname) - 1] = " for "
    /\ varname[Len(varname)] \in Range(AltsValues(alts))

RECURSIVE SplitFor(_)
\* varname.split(' for ')
SplitFor(varname) ==
    IF \A i \in DOMAIN varname : varname[i] # " for " THEN <<varname>>
    ELSE LET i == CHOOSE j \in DOMAIN varname :
                     varname[j] = " for " /\ \A l \in 1..(j - 1) : varname[l] # " for "
         IN  <<SubSeq(varname, 1, i - 1)>> \o SplitFor(SubSeq(varname, i + 1, Len(varname)))

\* A column name is a one-token name.
IsColumn(varname, columns) == Len(varname) = 1 /\ varname[1] \in columns

\* How the loop body fares on one coefficient: "ok", the KeyError of data[varname]
\* on a name that is no column, the ValueError of unpacking a split of more than
\* two parts, or "missing" for the branch that prints the error and returns.
CoefStatus(varname, columns, alts) ==
    IF ~EndsWithAltFlag(varname, alts)
    THEN IF IsColumn(varname, columns) THEN "ok" ELSE "KeyError"
    ELSE LET parts == SplitFor(varname)
         IN  IF Len(parts) # 2 THEN "ValueError"
             ELSE IF parts[1] = <<"ASC">> THEN "ok"
             ELSE IF IsColumn(parts[1], columns) THEN "ok"
             ELSE "missing"

\* The slip of taking the alternative's rows from the 1-based position.
DummyShifted(alt_name, alts, pos) ==
    LET d == AltsDict(alts)
        alt_idx == CHOOSE k \in DOMAIN d : d[k] = alt_name
    IN  IF pos % NAlt(alts) = alt_idx THEN 1 ELSE 0

\* dummies_dict[alt_name][pos - 1]: np.tile of the one-hot list of alt_idx, read at
\* the row's position pos (1-based) in the frame.
Dummy(alt_name, alts, pos) ==
    LET d == AltsDict(alts)
        alt_idx == CHOOSE k \in DOMAIN d : d[k] = alt_name
    IN  IF (pos - 1) % NAlt(alts) = alt_idx THEN 1 ELSE 0

\* What one coefficient adds to data['utility'] at the row at position pos.
UtilityTerm(coef, row, pos, alts) ==
    LET varname == coef[1]
        param == coef[2]
    IN  IF ~EndsWithAltFlag(varname, alts) THEN row[varname[1]] * param
        ELSE LET parts == SplitFor(varname)
                 use_dummy == Dummy(parts[2][1], alts, pos)
             IN  IF parts[1] = <<"ASC">> THEN use_dummy * param
                 ELSE row[parts[1][1]] * use_dummy * param

\* The coefficients the loop gets through: all of them, or those before the first
\* one whose status is not "ok".
CoefsDone(coefs, columns, alts) ==
    LET bad == {i \in DOMAIN coefs : CoefStatus(coefs[i][1], columns, alts) # "ok"}
    IN  IF bad = {} THEN coefs
        ELSE SubSeq(coefs, 1, (CHOOSE i \in bad : \A j \in bad : i <= j) - 1)

LoopStatus(coefs, columns, alts) ==
    LET bad == {i \in DOMAIN coefs : CoefStatus(coefs[i][1], columns, alts) # "ok"}
    IN  IF bad = {} THEN "ok"
        ELSE CoefStatus(coefs[CHOOSE i \in bad : \A j \in bad : i <= j][1], columns, alts)

\* data['utility'] = 0, then the loop's additions.
WithUtility(data, coefs, alts) ==
    LET done == CoefsDone(coefs, data.columns, alts)
    IN  [columns |-> data.columns \cup {"utility"},
         rows |-> [pos \in DOMAIN data.rows |->
                     [c \in data.columns \cup {"utility"} |->
                        IF c = "utility"
                        THEN SumSeq([i \in DOMAIN done |->
                                        UtilityTerm(done[i], data.rows[pos], pos, alts)])
                        ELSE data.rows[pos][c]]]]

\* np.array(data['utility']).reshape(numChoices, -1)
Reshape(data, numChoices) ==
    LET width == Len(data.rows) \div numChoices
    IN  [c \in 1..numChoices |-> [k \in 1..width |-> data.rows[(c - 1) * width + k]["utility"]]]

\* v - v.mean(axis=1), clipped to [-700, 700]; the model keeps nalt times the
\* value, so that the mean needs no division.
Clip(x, nalt) ==
    IF x > ClipBound * nalt THEN ClipBound * nalt
    ELSE IF x < -(ClipBound * nalt) THEN -(ClipBound * nalt) ELSE x

Stabilised(v_row) ==
    [k \in DOMAIN v_row |-> Clip(Len(v_row) * v_row[k] - SumSeq(v_row), Len(v_row))]

\* p.argmax(axis=1): the first position (0-based) of the largest entry.  exp and
\* the division by the row sum are increasing, so the probabilities are kept as
\* the stabilised utilities they are computed from.
ArgMax(row) == (CHOOSE k \in DOMAIN row :
                   /\ \A j \in DOMAIN row : row[j] <= row[k]
                   /\ \A j \in 1..(k - 1) : row[j] < row[k]) - 1

\* The slip of working on the caller's frame itself.
PredCallerFrameAliased(data_in, data) == data

\* data = data_in.copy(): the frame the function works on is its own, and the
\* caller's frame stays as it is.
PredCallerFrame(data_in, data) == data_in

\* asclogit_pred: [ret, data], the outcome and the working frame at exit.
\* draws[c] is what np.random.choice returns for case c under method 'random'.
AsclogitRun(data_in, modelDict, method, alts, draws) ==
    LET numChoices == Cardinality(CaseIDs(data_in))
        coefs == modelDict.params
        data == WithUtility(data_in, coefs, alts)
        status == LoopStatus(coefs, data_in.columns, alts)
        v_raw == Reshape(data, numChoices)
        p == [c \in DOMAIN v_raw |-> Stabilised(v_raw[c])]
    IN  IF status = "missing" THEN [ret |-> Return(None), data |-> data]
        ELSE IF status # "ok" THEN [ret |-> Raise(status), data |-> data]
        ELSE IF method = "max"
        THEN [ret |-> Return(<<p, [c \in DOMAIN p |-> ArgMax(p[c])], v_raw>>), data |-> data]
        ELSE IF method = "random"
        THEN [ret |-> Return(<<p, draws, v_raw>>), data |-> data]
        ELSE IF method = "none"
        THEN [ret |-> Return(<<p, None, v_raw>>), data |-> data]
        ELSE [ret |-> Raise("UnboundLocalError"), data |-> data]

asclogit_pred(data_in, modelDict, method, alts, draws) ==
    AsclogitRun(data_in, modelDict, method, alts, draws).ret

\* Inputs of asclogit_pred: frames long_form_data builds, of 1..MaxPredCases cases
\* and 2..MaxAlt alternatives, their rows in the order of alts or permuted within
\* each case, and the coefficient dicts below: well-formed ones, one with a large
\* coefficient, and ones naming a variable that is no column.
PredWideRows ==
    {[mode |-> "drive", income |-> 1, t_drive |-> 0, t_cycle |-> 30, t_walk |-> 31],
     [mode |-> "cycle", income |-> 2, t_drive |-> 31, t_cycle |-> 30, t_walk |-> 0]}
PredTimeCols == <<"t_drive", "t_cycle", "t_walk", "t_PT">>
PredParams ==
    {<<<<<<"time">>, -1>>>>,
     <<<<<<"time">>, -1>>, <<<<"ASC", " for ", "cycle">>, 2>>, <<<<"income", " for ", "cycle">>, 3>>>>,
     <<<<<<"ASC", " for ", "cycle">>, -2>>, <<<<"ASC", " for ", "walk">>, 1>>>>,
     <<<<<<"time">>, 100>>>>,
     <<<<<<"time">>, 1>>, <<<<"age", " for ", "cycle">>, 1>>, <<<<"income", " for ", "cycle">>, 1>>>>,
     <<<<<<"cost">>, 1>>, <<<<"age", " for ", "cycle">>, 1>>>>,
     <<<<<<"time">>, 1>>, <<<<"income", " for ", "bus", " for ", "cycle">>, 1>>>>}
\* Row orders within a case: the order of alts, its reverse and its rotation.
PredPerms(n) ==
    {[k \in 1..n |-> k], [k \in 1..n |-> n + 1 - k], [k \in 1..n |-> (k % n) + 1]}
PermuteWithinCases(df, perm) ==
    LET n == Cardinality(DOMAIN perm)
    IN  [df EXCEPT !.rows = [pos \in DOMAIN df.rows |->
                               df.rows[((pos - 1) \div n) * n + perm[((pos - 1) % n) + 1]]]]

PredInit ==
    /\ pc = "call"
    /\ \E ncases \in 1..MaxPredCases, alts \in {a \in SpecAlts : NAlt(a) >= 2},
          coefs \in PredParams, method \in {"max", "random", "none", "sample"} :
          \E rows \in [1..ncases -> PredWideRows], perm \in PredPerms(NAlt(alts)) :
             args = [data_in |->
                        PermuteWithinCases(
                           long_form_data([index |-> [i \in 1..ncases |-> i - 1], rows |-> rows],
                                          [time |-> SubSeq(PredTimeCols, 1, NAlt(alts))],
                                          <<"income">>, AltsValues(alts), TRUE).value, perm),
                     modelDict |-> [just_point |-> TRUE, params |-> coefs],
                     method |-> method, alts |-> alts]
    /\ ret = Pending /\ caller_df = args.data_in
    /\ fit_calls = <<>> /\ CvIdle

PredCall ==
    /\ pc = "call"
    /\ \E draws \in [1..Cardinality(CaseIDs(args.data_in)) -> DOMAIN AltsDict(args.alts)] :
          LET run == AsclogitRun(args.data_in, args.modelDict, args.method, args.alts, draws)
          IN  /\ ret' = run.ret
              /\ caller_df' = PredCallerFrame(caller_df, run.data)
    /\ pc' = "done"
    /\ UNCHANGED <<args, fit_calls, cv_vars>>

PredNext == PredCall

SpecPred == PredInit /\ [][PredNext]_vars

\* A call that returned the (p, y, v_raw) triple.
PredTriple == pc = "done" /\ ret.kind = "return" /\ ret.value # None

\* What the coefficient named varname, of value param, is said to add to the
\* utility of a row: 'ASC for A' adds param on the rows of alternative A, 'X for A'
\* adds X * param on the rows of alternative A, any other X adds X * param.
ClaimedTerm(varname, param, row, alts) ==
    IF Len(varname) = 3 /\ varname[2] = " for " /\ varname[3] \in Range(AltsValues(alts))
    THEN IF row["alt"] # varname[3] THEN 0
         ELSE IF varname[1] = "ASC" THEN param ELSE row[varname[1]] * param
    ELSE row[varname[1]] * param

ClaimedUtility(row, coefs, alts) ==
    SumSeq([i \in DOMAIN coefs |-> ClaimedTerm(coefs[i][1], coefs[i][2], row, alts)])

\* The reconstructed utilities are the claimed ones, row by row.
UtilitiesAsClaimed ==
    LET nalt == NAlt(args.alts)
        v_raw == ret.value[3]
    IN  \A c \in DOMAIN v_raw : \A k \in 1..nalt :
           v_raw[c][k] = ClaimedUtility(args.data_in.rows[(c - 1) * nalt + k],
                                        args.modelDict.params, args.alts)

\* The rows of the frame follow the order of alts: the row at position pos
\* (0-based) is a row of alternative alts[pos mod nalt].
RowsInAltsOrder ==
    LET nalt == NAlt(args.alts)
    IN  \A pos \in DOMAIN args.data_in.rows :
           args.data_in.rows[pos]["alt"] = AltsValues(args.alts)[((pos - 1) % nalt) + 1]

\* C8 as stated: the utilities are reconstructed per alternative as claimed for
\* every frame with nalt rows per case, whatever the order of its rows.
C8_Original == PredTriple => UtilitiesAsClaimed

\* C8, amended: the utilities are reconstructed per alternative as claimed for
\* every frame whose rows follow the order of alts, the row at 0-based position
\* pos being a row of alternative alts[pos mod nalt]; the rows of an alternative
\* are found by position, not by the 'alt' column.
C8_UtilitiesInAltsOrder == PredTriple /\ RowsInAltsOrder => UtilitiesAsClaimed

\* C8 witness: a returned triple for a frame in the order of alts, with a constant
\* and a case-specific coefficient for one alternative and three alternatives.
C8_Witness ==
    /\ PredTriple /\ RowsInAltsOrder
    /\ NAlt(args.alts) = 3
    /\ Len(ret.value[3]) = 2
    /\ \E i, j \in DOMAIN args.modelDict.params :
          /\ args.modelDict.params[i][1] = <<"ASC", " for ", "cycle">>
          /\ args.modelDict.params[j][1] = <<"income", " for ", "cycle">>

\* C6: with method 'max' the predicted position of every case is one where the
\* reconstructed raw utility v_raw of the case is largest.
C6_ArgMaxOfRawUtility ==
    PredTriple /\ args.method = "max" =>
        LET y == ret.value[2]
            v_raw == ret.value[3]
        IN  \A c \in DOMAIN v_raw : \A k \in DOMAIN v_raw[c] :
               v_raw[c][k] <= v_raw[c][y[c] + 1]

\* A coefficient 'X for A', A an alternative and X not 'ASC', whose X is no column.
MissingVariable(varname) ==
    /\ Len(varname) = 3 /\ varname[2] = " for "
    /\ varname[3] \in Range(AltsValues(args.alts))
    /\ varname[1] # "ASC"
    /\ varname[1] \notin args.data_in.columns

\* The loop reaches coefficient i: every coefficient before it is processed.
LoopReaches(i) ==
    \A j \in 1..(i - 1) :
       CoefStatus(args.modelDict.params[j][1], args.data_in.columns, args.alts) = "ok"

RECURSIVE ZipDict(_, _, _)
\* the dict built from zip(keys, values): pairs up to the shorter of the two, a
\* repeated key keeping its last value
ZipDict(od, keys, values) ==
    IF keys = <<>> \/ values = <<>> THEN od
    ELSE ZipDict(OdSet(od, keys[1], values[1]), Tail(keys), Tail(values))

\* The pylogit model passed in is [ind_var_names, nrows, fit_full, summary,
\* fit_point, coefs, x]: its coefficient names, the rows of model.data, and what
\* its methods do when called: fit_mle(init) and get_statsmodels_summary() end
\* "ok" or "raise", coefs are the values a full fit estimates, x the values a
\* just_point fit returns.  fit_mle raises ValueError whenever the initial values
\* are not one per coefficient name.
FitMleRaises(model, numCoef, outcome) ==
    outcome = "raise" \/ numCoef # Len(model.ind_var_names)

\* The slip of catching nothing raised by the summary display.
TryBlockRaisesFitOnly(model, numCoef, disp) ==
    FitMleRaises(model, numCoef, model.fit_full)

\* The try block raises when the full fit does or, with disp, the summary does.
TryBlockRaises(model, numCoef, disp) ==
    \/ FitMleRaises(model, numCoef, model.fit_full)
    \/ disp /\ model.summary = "raise"

\* logit_est_disp: [ret, fit_calls], the outcome and the fit_mle calls made, each
\* [just_point, raised].
EstRun(model, numCoef, nalt, disp) ==
    LET full_call == [just_point |-> FALSE,
                      raised |-> FitMleRaises(model, numCoef, model.fit_full)]
        point_call == [just_point |-> TRUE,
                       raised |-> FitMleRaises(model, numCoef, model.fit_point)]
    IN  IF ~TryBlockRaises(model, numCoef, disp)
        THEN [ret |-> Return([just_point |-> FALSE,
                              params |-> ZipDict(<<>>, model.ind_var_names, model.coefs),
                              model |-> model]),
              fit_calls |-> <<full_call>>]
        ELSE IF point_call.raised
        THEN [ret |-> Raise("ValueError"), fit_calls |-> <<full_call, point_call>>]
        ELSE IF nalt = 0
        THEN [ret |-> Raise("ZeroDivisionError"), fit_calls |-> <<full_call, point_call>>]
        ELSE [ret |-> Return([just_point |-> TRUE,
                              params |-> ZipDict(<<>>, model.ind_var_names, model.x),
                              model |-> model]),
              fit_calls |-> <<full_call, point_call>>]

logit_est_disp(model, numCoef, nalt, disp) == EstRun(model, numCoef, nalt, disp).ret

\* The coefficient names of the model logit_spec builds: names.values(), flattened.
IndVarNames(spec_model) == Flatten([i \in DOMAIN spec_model.names |-> spec_model.names[i][2]])

\* The values a fit can estimate.
CoefValues == {-1, 2}

\* The pylogit models a specification of logit_spec can give, over nrows rows.
PylogitModels(spec_model, nrows) ==
    LET names == IndVarNames(spec_model)
    IN  {[ind_var_names |-> names, nrows |-> nrows, fit_full |-> ff, summary |-> sm,
          fit_point |-> fp, coefs |-> cf, x |-> cf] :
            ff \in {"ok", "raise"}, sm \in {"ok", "raise"}, fp \in {"ok", "raise"},
            cf \in [1..Len(names) -> CoefValues]}

\* Inputs of logit_est_disp: models of specifications of up to three
\* coefficients, numCoef as logit_spec returns it or one more, nalt >= 1.
EstInit ==
    /\ pc = "call"
    /\ \E alt_attr_vars \in {<<>>, <<"time">>}, generic_attrs \in {<<>>, <<"income">>},
          constant \in BOOLEAN, nalt \in 1..MaxAlt, disp \in BOOLEAN, extra \in {0, 1} :
          LET spec == logit_spec(alt_attr_vars, generic_attrs, constant,
                                 [kind |-> "list", items |-> SubSeq(DefaultAltNames, 1, nalt)],
                                 0).value
          IN  /\ spec.numCoef <= MaxCoef
              /\ \E model \in PylogitModels(spec.model, nalt * MaxCases) :
                    args = [model |-> model, numCoef |-> spec.numCoef + extra,
                            nalt |-> nalt, disp |-> disp]
    /\ ret = Pending /\ caller_df = <<>>
    /\ fit_calls = <<>> /\ CvIdle

EstCall ==
    /\ pc = "call"
    /\ LET run == EstRun(args.model, args.numCoef, args.nalt, args.disp)
       IN  ret' = run.ret /\ fit_calls' = run.fit_calls
    /\ pc' = "done"
    /\ UNCHANGED <<args, caller_df, cv_vars>>

EstNext == EstCall

SpecEst == EstInit /\ [][EstNext]_vars

\* What the model's methods did to the call, read off the model that was passed:
\* the full attempt (the fit and, with disp, the display of its summary) raised;
\* the just_point fit raises.
FullAttemptRaised ==
    \/ args.model.fit_full = "raise"
    \/ args.numCoef # Len(args.model.ind_var_names)
    \/ args.disp /\ args.model.summary = "raise"
FallbackRaises ==
    args.model.fit_point = "raise" \/ args.numCoef # Len(args.model.ind_var_names)

\* The just_point fits among the fit_mle calls made.
FallbackCalls == {i \in DOMAIN fit_calls : fit_calls[i].just_point}

\* C2: the just_point fit is run if and only if the full attempt raised, and then
\* once; a full attempt that succeeds gives a result with just_point False, a
\* fallback that succeeds gives a result with just_point True and one params
\* entry per coefficient name, a fallback that raises gives no result but the
\* exception.
C2_FallbackIffFullRaised ==
    pc = "done" =>
        /\ Cardinality(FallbackCalls) = (IF FullAttemptRaised THEN 1 ELSE 0)
        /\ ~FullAttemptRaised => ret.kind = "return" /\ ret.value.just_point = FALSE
        /\ FullAttemptRaised /\ ~FallbackRaises =>
              /\ ret.kind = "return" /\ ret.value.just_point = TRUE
              /\ OdKeys(ret.value.params) = Range(args.model.ind_var_names)
              /\ Len(ret.value.params) = Cardinality(Range(args.model.ind_var_names))
        /\ FullAttemptRaised /\ FallbackRaises => ret.kind = "raise"

\* C2 witness: a full fit that raised, followed by a fallback that returned three
\* coefficients.
C2_Witness ==
    /\ pc = "done" /\ ret.kind = "return" /\ ret.value.just_point
    /\ Len(fit_calls) = 2 /\ fit_calls[1].raised
    /\ Len(ret.value.params) = 3

\* ------------------------------------------------------------------ logit_cv

\* The order of the alternatives' names as Python compares strings.
AlphaRank == [PT |-> 0, cycle |-> 1, drive |-> 2, walk |-> 3]

RowBefore(r1, r2) ==
    \/ r1["group"] < r2["group"]
    \/ r1["group"] = r2["group"] /\ AlphaRank[r1["alt"]] < AlphaRank[r2["alt"]]

RECURSIVE SortValues(_)
\* sort_values(by=['group', 'alt'])
SortValues(rows) ==
    IF rows = <<>> THEN <<>>
    ELSE LET i == CHOOSE j \in DOMAIN rows :
                     /\ \A l \in DOMAIN rows : ~RowBefore(rows[l], rows[j])
                     /\ \A l \in 1..(j - 1) : RowBefore(rows[j], rows[l])
         IN  <<rows[i]>> \o SortValues(SubSeq(rows, 1, i - 1) \o SubSeq(rows, i + 1, Len(rows)))

\* caseIDs[i * nsampe_fold: (i + 1) * nsampe_fold], as a set
FoldIDs(ids, nsampe_fold, i) ==
    {ids[k] : k \in {j \in DOMAIN ids : i * nsampe_fold < j /\ j <= (i + 1) * nsampe_fold}}

\* long_data_df.loc[long_data_df['group'].isin(...)] for each fold i in range(nfold)
CvData(long_data_df, ids, nfold) ==
    LET nsampe_fold == Len(ids) \div nfold
    IN  [i \in 0..(nfold - 1) |->
            LET InFold(r) == r["group"] \in FoldIDs(ids, nsampe_fold, i)
            IN  [long_data_df EXCEPT !.rows = SelectSeq(long_data_df.rows, InFold)]]

\* pd.concat of the folds other than the held-out one, sorted by group and alt.
TrainFrame(folds, holdout) ==
    LET others == SortedSeq(DOMAIN folds \ {holdout})
    IN  [columns |-> folds[holdout].columns,
         rows |-> SortValues(Flatten([k \in DOMAIN others |-> folds[others[k]].rows]))]

\* pred_prob_test, y_pred_test = <value>: two targets take a value of two items;
\* a longer tuple raises ValueError and None raises TypeError.
Unpack2(value) ==
    IF value = None THEN Raise("TypeError: cannot unpack non-iterable NoneType object")
    ELSE IF Len(value) # 2 THEN Raise("ValueError: too many values to unpack (expected 2)")
    ELSE Return(value)

\* np.array(df['choice']).reshape(-1, nalt).argmax(axis=1)
YTrue(df, nalt) ==
    [c \in 1..(Len(df.rows) \div nalt) |->
        ArgMax([k \in 1..nalt |-> df.rows[(c - 1) * nalt + k]["choice"]])]

\* accuracy_score and f1_score(average='macro'), kept as what they are computed
\* from: the number of right predictions over the number of cases, and the two
\* label vectors.
AccuracyScore(y_true, y_pred) ==
    <<Cardinality({c \in DOMAIN y_true : y_true[c] = y_pred[c]}), Len(y_true)>>
F1Score(y_true, y_pred) == [average |-> "macro", y_true |-> y_true, y_pred |-> y_pred]

\* Lines 229-234: the fold's (ac, f1) from the unpacked prediction.
FoldScore(a, long_data_df_test, unpacked) ==
    IF unpacked.kind = "raise" THEN unpacked
    ELSE Return([ac |-> AccuracyScore(YTrue(long_data_df_test, NAlt(a.alts)), unpacked.value[2]),
                 f1 |-> F1Score(YTrue(long_data_df_test, NAlt(a.alts)), unpacked.value[2])])

\* Lines 227-228: the prediction of the held-out fold, unpacked into two names.
FoldPredict(a, long_data_df_test, pred) ==
    IF pred.kind = "raise" THEN pred
    ELSE FoldScore(a, long_data_df_test, Unpack2(pred.value))

\* Line 226 on: the estimation on the training data, then the prediction.
FoldEstimate(a, long_data_df_test, modelDict_train, draws) ==
    IF modelDict_train.kind = "raise" THEN modelDict_train
    ELSE FoldPredict(a, long_data_df_test,
                     asclogit_pred(long_data_df_test, modelDict_train.value, a.method,
                                   a.alts, draws))

\* Lines 224-225 on: the pylogit model of the upsampled training data; fit is what
\* the model's fit_mle does in this pass.
FoldSpec(a, long_data_df_test, up, spec, fit, draws) ==
    IF up.kind = "raise" THEN up
    ELSE IF spec.kind = "raise" THEN spec
    ELSE FoldEstimate(a, long_data_df_test,
            logit_est_disp([ind_var_names |-> IndVarNames(spec.value.model),
                            nrows |-> Len(up.value.rows),
                            fit_full |-> fit.fit_full, summary |-> "ok",
                            fit_point |-> fit.fit_point,
                            coefs |-> [k \in 1..spec.value.numCoef |-> fit.coef],
                            x |-> [k \in 1..spec.value.numCoef |-> fit.coef]],
                           spec.value.numCoef, NAlt(a.alts), FALSE),
            draws)

\* One pass of the loop body for the held-out fold: the exception it raises, or
\* the fold's (ac, f1).  picks and draws are what the random generator returns in
\* this pass (no draw is made under method 'max').  pd.concat raises ValueError when there is no other fold.
FoldRun(a, folds, holdout, picks, fit, draws) ==
    IF Cardinality(DOMAIN folds) < 2 THEN Raise("ValueError")
    ELSE FoldSpec(a, folds[holdout],
                  long_form_data_upsample(TrainFrame(folds, holdout), a.upsample_new, picks,
                                          a.empty_choice_raises),
                  logit_spec(a.alt_attr_vars, a.generic_attrs, a.constant, a.alts, 0),
                  fit, draws)

\* np.asarray(list).mean(), kept as the list it is the mean of.
Mean(list) == [mean_of |-> list]

\* Inputs of logit_cv: frames long_form_data builds for 0..MaxCvCases cases over
\* the alternatives drive and cycle, 1..MaxFold folds, an upsample_new that adds
\* nothing or one case, and fit, what the pylogit models' fit_mle does during the
\* call.
CvAlts == [kind |-> "list", items |-> <<"drive", "cycle">>]
CvWideRows == {[mode |-> "drive", income |-> 1, t_drive |-> 5, t_cycle |-> 9],
               [mode |-> "cycle", income |-> 2, t_drive |-> 7, t_cycle |-> 4]}
CvUpsampleNew == {<<<<0, "+", 0>>, <<1, "+", 0>>>>, <<<<1, "+", 1>>>>}

CvInit ==
    /\ pc = "start"
    /\ \E ncs \in 0..MaxCvCases, nfold \in 1..MaxFold, generic_attrs \in GenericAttrLists,
          upsample_new \in CvUpsampleNew, empty_choice_raises \in BOOLEAN,
          fit \in [fit_full : {"ok", "raise"}, fit_point : {"ok", "raise"}, coef : CoefValues] :
          \E rows \in [1..ncs -> CvWideRows] :
             args = [data |-> long_form_data([index |-> [i \in 1..ncs |-> i + 10], rows |-> rows],
                                             [time |-> <<"t_drive", "t_cycle">>], <<"income">>,
                                             AltsValues(CvAlts), TRUE).value,
                     alt_attr_vars |-> <<"time">>, generic_attrs |-> generic_attrs,
                     constant |-> TRUE, nfold |-> nfold, alts |-> CvAlts,
                     upsample_new |-> upsample_new, method |-> "max",
                     empty_choice_raises |-> empty_choice_raises, fit |-> fit]
    /\ ret = Pending /\ caller_df = args.data
    /\ fit_calls = <<>> /\ CvIdle

\* Lines 207-217: the shuffled case IDs, the folds and the empty score tables.
CvStart ==
    /\ pc = "start"
    /\ \E perm \in Permutations(1..Cardinality(CaseIDs(args.data))) :
          LET ids == SortedSeq(CaseIDs(args.data))
          IN  caseIDs' = [k \in DOMAIN ids |-> ids[perm[k]]]
    /\ cv_data' = CvData(args.data, caseIDs', args.nfold)
    /\ cv_metrics_detail' = [i \in 0..(args.nfold - 1) |-> [accuracy |-> None, f1_macro |-> None]]
    /\ accuracy_list' = <<>> /\ f1_macro_list' = <<>>
    /\ holdout_idx' = 0
    /\ pc' = "loop"
    /\ UNCHANGED <<args, ret, caller_df, fit_calls>>

\* What a pass of the loop leaves: an exception ends the call; otherwise the
\* scores are stored and, after the last fold, (cv_metrics, cv_metrics_detail) is
\* returned.
FoldOutcome(run) ==
    IF run.kind = "raise"
    THEN /\ ret' = run /\ pc' = "done"
         /\ UNCHANGED <<holdout_idx, cv_metrics_detail, accuracy_list, f1_macro_list>>
    ELSE /\ cv_metrics_detail' = [cv_metrics_detail EXCEPT ![holdout_idx] =
                                    [accuracy |-> run.value.ac, f1_macro |-> run.value.f1]]
         /\ accuracy_list' = Append(accuracy_list, run.value.ac)
         /\ f1_macro_list' = Append(f1_macro_list, run.value.f1)
         /\ holdout_idx' = holdout_idx + 1
         /\ IF holdout_idx + 1 = args.nfold
            THEN /\ ret' = Return(<<[accuracy |-> Mean(accuracy_list'),
                                     f1_macro |-> Mean(f1_macro_list')], cv_metrics_detail'>>)
                 /\ pc' = "done"
            ELSE UNCHANGED <<ret, pc>>

\* Lines 218-239: one pass of the loop.
CvFold ==
    /\ pc = "loop" /\ holdout_idx < args.nfold
    /\ \E picks \in UpsamplePicks(TrainFrame(cv_data, holdout_idx), args.upsample_new) :
          FoldOutcome(FoldRun(args, cv_data, holdout_idx, picks, args.fit, <<>>))
    /\ UNCHANGED <<args, caller_df, fit_calls, caseIDs, cv_data>>

CvNext == CvStart \/ CvFold

SpecCv == CvInit /\ [][CvNext]_vars

\* A call with at least as many cases as folds.
CvEnoughCases == Cardinality(CaseIDs(args.data)) >= args.nfold

\* A call in which nothing outside logit_cv fails: every fit succeeds and the
\* upsampling adds no case and draws no sample.
CvNothingElseFails ==
    /\ CvEnoughCases
    /\ args.fit.fit_full = "ok"
    /\ ~args.empty_choice_raises
    /\ \A e \in DOMAIN args.upsample_new : args.upsample_new[e][3] = 0

\* C3: for nfold >= 2 and at least nfold cases, the folds partition the cases:
\* they are pairwise disjoint and every case ID of the input is in exactly one of
\* them.
C3_FoldsPartitionCases ==
    pc # "start" /\ args.nfold >= 2 /\ CvEnoughCases =>
        LET Fold(i) == CaseIDs(cv_data[i])
        IN  /\ \A i, j \in DOMAIN cv_data : i # j => Fold(i) \cap Fold(j) = {}
            /\ \A g \in CaseIDs(args.data) : \E i \in DOMAIN cv_data : g \in Fold(i)

\* C1: a call with nfold >= 2, in which nothing outside logit_cv fails, runs every
\* fold and returns (cv_metrics, cv_metrics_detail) with an accuracy and an
\* f1_macro for every fold index 0..nfold-1 and their means.
C1_CvRunsAllFolds ==
    pc = "done" /\ args.nfold >= 2 /\ CvNothingElseFails =>
        /\ ret.kind = "return"
        /\ DOMAIN ret.value[2] = 0..(args.nfold - 1)
        /\ \A i \in DOMAIN ret.value[2] :
              ret.value[2][i].accuracy # None /\ ret.value[2][i].f1_macro # None
        /\ ret.value[1].accuracy = Mean([i \in 1..args.nfold |-> ret.value[2][i - 1].accuracy])
        /\ ret.value[1].f1_macro = Mean([i \in 1..args.nfold |-> ret.value[2][i - 1].f1_macro])

====
